---------------------------- MODULE Spec2Model ----------------------------
(***************************************************************************)
(* A model of floating_translator.py: the translation cache with its       *)
(* popularity eviction and persistence, translate_text with the rate       *)
(* limiter, the retry loop and the provider chain, and the window's        *)
(* dispatch of translation tasks.                                          *)
(*                                                                         *)
(* Strings the program inspects character by character are sequences of    *)
(* one-character strings; the bullet character is the token "bullet".      *)
(* Time is counted in ticks of 1/TicksPerSecond seconds.                   *)
(***************************************************************************)
EXTENDS Integers, Sequences, FiniteSets, TLC

-----------------------------------------------------------------------------
(* Character sequences *)

Whitespace == {" ", "\n", "\t"}

LineBreaks == {"\n"}

MarkupChars == {"*", "-", "bullet", " "}

RECURSIVE lstrip(_, _)
\* str.lstrip(chars): drop the leading characters that are in chars.
lstrip(s, chars) ==
    IF s # <<>> /\ Head(s) \in chars THEN lstrip(Tail(s), chars) ELSE s

RECURSIVE rstrip(_, _)
\* str.rstrip(chars): drop the trailing characters that are in chars.
rstrip(s, chars) ==
    IF s # <<>> /\ s[Len(s)] \in chars
    THEN rstrip(SubSeq(s, 1, Len(s) - 1), chars)
    ELSE s

\* str.strip(chars)
strip(s, chars) == rstrip(lstrip(s, chars), chars)

\* text.splitlines()[0] of a non-empty text: the characters before the first
\* line break.
FirstLine(s) ==
    LET breaks == {i \in 1..Len(s) : s[i] \in LineBreaks}
    IN  IF breaks = {} THEN s
        ELSE SubSeq(s, 1, (CHOOSE i \in breaks : \A j \in breaks : i <= j) - 1)

startswith2(s) == Len(s) >= 2 /\ s[1] = "*" /\ s[2] = "*"

endswith2(s) == Len(s) >= 2 /\ s[Len(s) - 1] = "*" /\ s[Len(s)] = "*"

\* Python's line[2:-2]
Slice2(s) == SubSeq(s, 3, Len(s) - 2)

\* Positions i where "**" starts at i and a later "**" closes it with at least
\* one character in between: the possible starts of a match of \*\*(.+?)\*\*.
MatchStarts(line) ==
    {i \in 1..Len(line) :
        /\ i + 1 <= Len(line) /\ line[i] = "*" /\ line[i + 1] = "*"
        /\ \E j \in (i + 3)..(Len(line) - 1) : line[j] = "*" /\ line[j + 1] = "*"}

\* re.search(r"\*\*(.+?)\*\*", line).group(1): the leftmost start, and from it
\* the shortest non-empty inner text (the lazy quantifier).
MatchGroup(line) ==
    LET i == CHOOSE a \in MatchStarts(line) : \A b \in MatchStarts(line) : a <= b
        ends == {j \in (i + 3)..(Len(line) - 1) : line[j] = "*" /\ line[j + 1] = "*"}
        j == CHOOSE a \in ends : \A b \in ends : a <= b
    IN  SubSeq(line, i + 2, j - 1)

\* clean_translation raises IndexError when text is non-empty but all
\* whitespace: "".splitlines() is the empty list.
clean_raises(text) == text # <<>> /\ strip(text, Whitespace) = <<>>

\* clean_translation(text), for a text on which it does not raise.
clean_translation(text) ==
    IF text = <<>> THEN text
    ELSE
      LET line0 == FirstLine(strip(text, Whitespace))
          line  == strip(lstrip(line0, MarkupChars), Whitespace)
      IN  IF MatchStarts(line) # {}
          THEN strip(MatchGroup(line), Whitespace)
          ELSE LET line2 == IF startswith2(line) /\ endswith2(line)
                            THEN Slice2(line) ELSE line
               IN  strip(line2, {"*"})

-----------------------------------------------------------------------------
(* Bounds of the model *)

\* Ticks per second of the model's clock.
TicksPerSecond == 1

\* Ticks the clock may advance on its own; sleeps carry it further.
MaxTicks == 1

\* The clock reading at process start (seconds since the epoch, scaled down).
StartTime == 20

\* Calls of translate_text a worker thread may start.
MaxCalls == 1

\* Operations (remove item, clear history) the GUI thread may start.
MaxUiOps == 1

\* Requests the window may submit.
MaxSubmits == 3

\* The requests the language row may submit.
MaxLangSubmits == 2

\* The times the process starts.
MaxBoots == 2

\* The length of the texts given to clean_translation.
MaxCleanLen == 3

-----------------------------------------------------------------------------
(* Program constants *)

\* MIN_REQUEST_INTERVAL = 1.0 (seconds), in ticks.
MIN_REQUEST_INTERVAL == 1 * TicksPerSecond

\* _trim_cache(max_size: int = 15)
max_size == 15

\* for attempt in range(3)
MaxAttempts == 3

\* LANG_PROMPT_NAMES.keys(), the codes detect_language may return.
LANG_PROMPT_NAMES ==
    { <<"e","s">>, <<"e","n">>, <<"f","r">>, <<"d","e">>, <<"i","t">>,
      <<"p","t">>, <<"c","a">>, <<"z","h">>, <<"j","a">>, <<"k","o">>,
      <<"r","u">>, <<"a","r">> }

auto == <<"a","u","t","o">>

\* The codes of LANG_OPTIONS, in order.
LANG_OPTIONS ==
    << <<"e","s">>, <<"e","n">>, <<"f","r">>, <<"d","e">>, <<"i","t">>,
       <<"p","t">>, <<"c","a">>, <<"z","h">>, <<"j","a">>, <<"k","o">>,
       <<"r","u">>, <<"a","r">> >>

\* The item data of src_combo: "auto", then the codes of LANG_OPTIONS.
src_items == <<auto>> \o LANG_OPTIONS

\* The item data of dest_combo: the codes of LANG_OPTIONS.
dest_items == LANG_OPTIONS

\* QComboBox.itemData(idx) and currentData(), idx counted from 0.
itemData(items, idx) == items[idx + 1]

\* QComboBox.findData(code): the first index with that data, or -1.
findData(items, code) ==
    LET hits == {i \in 1..Len(items) : items[i] = code}
    IN  IF hits = {} THEN -1
        ELSE (CHOOSE i \in hits : \A j \in hits : i <= j) - 1

-----------------------------------------------------------------------------
(* The in-memory cache: a Python dict, which keeps insertion order.  It is a *)
(* sequence of items [key, translation, count, time], one per key.           *)

Keys(c) == {c[i].key : i \in 1..Len(c)}

Has(c, k) == k \in Keys(c)

\* _translation_cache[key]
Get(c, k) == c[CHOOSE i \in 1..Len(c) : c[i].key = k]

\* _translation_cache[key] = {...}: an existing key keeps its position, a new
\* key goes last.
Put(c, k, tr, cnt, tm) ==
    LET item == [key |-> k, translation |-> tr, count |-> cnt, time |-> tm]
    IN  IF Has(c, k)
        THEN [i \in 1..Len(c) |-> IF c[i].key = k THEN item ELSE c[i]]
        ELSE Append(c, item)

\* for key in ks: _translation_cache.pop(key, None)
PopAll(c, ks) == SelectSeq(c, LAMBDA it : it.key \notin ks)

\* A sort key of (count, time), ascending: the order _trim_cache does not use.
Before_Ascending(a, b) ==
    \/ a.count < b.count
    \/ a.count = b.count /\ a.time < b.time

\* The sort key of _trim_cache is (-count, -time): a sorts before b.
Before(a, b) ==
    \/ a.count > b.count
    \/ a.count = b.count /\ a.time > b.time

RECURSIVE InsertSorted(_, _)
\* Insert item x after every item of the sorted sequence s that does not sort
\* after it: with SortedItems, Python's stable sorted().
InsertSorted(s, x) ==
    IF s = <<>> THEN <<x>>
    ELSE IF Before(x, Head(s)) THEN <<x>> \o s
    ELSE <<Head(s)>> \o InsertSorted(Tail(s), x)

RECURSIVE SortedItems(_)
\* sorted(_translation_cache.items(), key=...)
SortedItems(c) ==
    IF c = <<>> THEN <<>>
    ELSE InsertSorted(SortedItems(SubSeq(c, 1, Len(c) - 1)), c[Len(c)])

\* A trim that tolerates one entry more than max_size.
TrimVictims_OneMore(c) ==
    IF Len(c) <= max_size + 1 THEN {}
    ELSE LET items == SortedItems(c)
         IN  {items[i].key : i \in (max_size + 2)..Len(items)}

\* The keys _trim_cache pops, read from the cache c: items[max_size:] of the
\* sorted items, or nothing when len(c) <= max_size.
TrimVictims(c) ==
    IF Len(c) <= max_size THEN {}
    ELSE LET items == SortedItems(c)
         IN  {items[i].key : i \in (max_size + 1)..Len(items)}

-----------------------------------------------------------------------------
(* get_translation_history *)

\* An ascending sort key, (count, time) without reverse=True.
HistoryBefore_Ascending(a, b) ==
    \/ a.count < b.count
    \/ a.count = b.count /\ a.time < b.time

\* items.sort(key=lambda x: (x[1], x[2]), reverse=True): a sorts before b.
HistoryBefore(a, b) ==
    \/ a.count > b.count
    \/ a.count = b.count /\ a.time > b.time

RECURSIVE HistoryInsert(_, _)
\* Insert x into the sorted sequence s after the items that do not sort after
\* it: list.sort is stable, also with reverse=True.
HistoryInsert(s, x) ==
    IF s = <<>> THEN <<x>>
    ELSE IF HistoryBefore(x, Head(s)) THEN <<x>> \o s
    ELSE <<Head(s)>> \o HistoryInsert(Tail(s), x)

RECURSIVE HistoryItems(_)
\* The list `items` of get_translation_history after items.sort: one triple
\* (translation, count, time) for each value of the cache c.
HistoryItems(c) ==
    IF c = <<>> THEN <<>>
    ELSE HistoryInsert(HistoryItems(SubSeq(c, 1, Len(c) - 1)),
                       [translation |-> c[Len(c)].translation,
                        count |-> c[Len(c)].count,
                        time |-> c[Len(c)].time])

\* [(t, c) for t, c, _ in items]
get_translation_history(c) ==
    LET items == HistoryItems(c)
    IN  [i \in 1..Len(items) |-> <<items[i].translation, items[i].count>>]

-----------------------------------------------------------------------------
(* The cache file.  file.kind is "missing", "invalid" (not JSON: also the    *)
(* file just truncated by open(..., "w")) or "json"; file.data is then the   *)
(* JSON object as a sequence of pairs [k, v], k the joined key.  A value v   *)
(* has form "dict" (with has_count / has_time telling which fields exist),   *)
(* "legacy" (a plain string) or "bad" (a dict whose count or time cannot be  *)
(* converted: int() or float() raises).                                      *)

Bars == <<"|", "|">>

\* "||".join(k)
Join(k) == k[1] \o Bars \o k[2] \o Bars \o k[3]

RECURSIVE split(_)
\* key.split("||")
split(s) ==
    LET at == {i \in 1..(Len(s) - 1) : s[i] = "|" /\ s[i + 1] = "|"}
    IN  IF at = {} THEN <<s>>
        ELSE LET i == CHOOSE a \in at : \A b \in at : a <= b
             IN  <<SubSeq(s, 1, i - 1)>> \o split(SubSeq(s, i + 2, Len(s)))

DictValue(tr, cnt, tm) ==
    [form |-> "dict", translation |-> tr, count |-> cnt, time |-> tm,
     has_count |-> TRUE, has_time |-> TRUE]

RECURSIVE LoadItems(_, _, _)
\* The loop of the module-level load over data.items(), from the cache c
\* loaded so far; an exception ends the loop and keeps what was loaded.
LoadItems(data, c, tnow) ==
    IF data = <<>> THEN c
    ELSE
      LET parts == split(Head(data).k)
          v     == Head(data).v
          key   == <<parts[1], parts[2], parts[3]>>
      IN  IF Len(parts) # 3 THEN LoadItems(Tail(data), c, tnow)
          ELSE IF v.form = "bad" THEN c
          ELSE IF v.form = "dict"
          THEN LoadItems(Tail(data),
                         Put(c, key, v.translation,
                             IF v.has_count THEN v.count ELSE 0,
                             IF v.has_time THEN v.time ELSE tnow),
                         tnow)
          ELSE LoadItems(Tail(data), Put(c, key, v.translation, 0, tnow), tnow)

\* The module-level cache load: the cache after startup, read at time tnow.
LoadCache(f, tnow) ==
    IF f.kind = "json" THEN LoadItems(f.data, <<>>, tnow) ELSE <<>>

RECURSIVE DumpItems(_, _)
\* The dict comprehension of _save_cache: one pair per joined key, a later
\* item with the same joined key replacing the value of the earlier one.
DumpItems(c, data) ==
    IF c = <<>> THEN data
    ELSE
      LET it   == Head(c)
          pair == [k |-> Join(it.key),
                   v |-> DictValue(it.translation, it.count, it.time)]
          at   == {i \in 1..Len(data) : data[i].k = pair.k}
      IN  DumpItems(Tail(c),
                    IF at = {} THEN Append(data, pair)
                    ELSE [i \in 1..Len(data) |-> IF i \in at THEN pair ELSE data[i]])

\* What json.dump writes for the cache c.
Dump(c) == DumpItems(c, <<>>)

MissingFile == [kind |-> "missing", data |-> <<>>]

TruncatedFile == [kind |-> "invalid", data |-> <<>>]

JsonFile(data) == [kind |-> "json", data |-> data]

-----------------------------------------------------------------------------
(* The inputs the model draws from *)

es == <<"e", "s">>

en == <<"e", "n">>

zh == <<"z", "h">>

Hola == <<"H", "o", "l", "a">>

Hello == <<"H", "e", "l", "l", "o">>

Letters ==
    <<"a", "b", "c", "d", "e", "f", "g", "h", "i",
      "j", "k", "l", "m", "n", "o", "p", "q", "r">>

\* The i-th entry of a cache file written by an earlier run: entries 1 and 2
\* share the translation "Hello", counts alternate and times grow with i, so
\* that entry 2 ranks lowest, then entry 4, ...
FillerKey(i) == << <<Letters[i]>>, es, en >>

FillerTr(i) == IF i <= 2 THEN Hello ELSE <<"t", Letters[i]>>

FillerPair(i, base) ==
    [k |-> Join(FillerKey(i)),
     v |-> DictValue(FillerTr(i), base + (i % 2), i)]

FillerData(n, base) == [i \in 1..n |-> FillerPair(i, base)]

\* A file in the legacy format (plain strings), with one key that does not
\* split into three parts.
LegacyData ==
    << [k |-> Join(<<Hola, es, en>>),
        v |-> [form |-> "legacy", translation |-> Hello, count |-> 0,
               time |-> 0, has_count |-> FALSE, has_time |-> FALSE]],
       [k |-> Hola \o Bars \o es,
        v |-> DictValue(Hello, 1, 0)] >>

\* The cache files the sequential specification starts from: none, an
\* unreadable one, a legacy one, and files of 15 to 17 entries.
StartupFiles ==
    {MissingFile, TruncatedFile, JsonFile(LegacyData)}
    \cup {JsonFile(FillerData(n, base)) :
             n \in {max_size, max_size + 1, max_size + 2}, base \in {1, 2}}

\* A value whose count or time cannot be converted by int() or float().
BadValue(tr) ==
    [form |-> "bad", translation |-> tr, count |-> 0, time |-> 0,
     has_count |-> TRUE, has_time |-> TRUE]

\* A file whose second entry has a count that cannot be converted.
BadData ==
    << FillerPair(1, 1),
       [k |-> Join(FillerKey(2)), v |-> BadValue(FillerTr(2))],
       FillerPair(3, 1) >>

\* The cache files the specification of restarts starts from.
StartupFilesBoot ==
    {MissingFile, TruncatedFile, JsonFile(BadData), JsonFile(LegacyData),
     JsonFile(FillerData(max_size, 1))}

\* A text that contains the delimiter of the file's keys.
TextWithBars == <<"a", "|", "|", "b">>

TextsBoot == {Hola, TextWithBars}

\* The cache files the specification of repeated calls starts from: a small
\* cache, a full one whose entries have all been used twice or more, and one
\* of 17 entries.
StartupFilesRepeat ==
    {JsonFile(LegacyData), JsonFile(FillerData(max_size, 2)),
     JsonFile(FillerData(max_size + 2, 1))}

\* The cache file the concurrent specification starts from: a full cache.
StartupFilesConc == {JsonFile(FillerData(max_size, 1))}

\* Texts passed to translate_text.
Texts == {Hola, <<"b">>}

SourceLangs == {es, auto}

TargetLangs == {en}

\* What langdetect's detect(text) does: raises LangDetectException, or
\* returns a code.
DetectOutcomes ==
    { [raises |-> TRUE, code |-> <<>>],
      [raises |-> FALSE, code |-> es],
      [raises |-> FALSE, code |-> <<"z", "h", "-", "c", "n">>],
      [raises |-> FALSE, code |-> <<"x", "x">>] }

\* What one request to the primary provider does: an HTTP 200 whose text is
\* raw, HTTP 429, another HTTP error, or any other exception.
PrimaryResponses ==
    { [kind |-> "ok", raw |-> <<"*", "*", "H", "e", "l", "l", "o", "*", "*", "\n", "n", "o", "t", "e">>],
      [kind |-> "ok", raw |-> <<" ", "\n">>],
      [kind |-> "http429", raw |-> <<>>],
      [kind |-> "http_other", raw |-> <<>>],
      [kind |-> "error", raw |-> <<>>] }

\* What the secondary provider does: returns a text, or raises.
SecondaryResponses ==
    { [kind |-> "ok", text |-> Hello],
      [kind |-> "ok", text |-> <<"-", " ", "H", "i">>],
      [kind |-> "error", text |-> <<>>] }

\* The primary provider's answers when it never answers HTTP 429.
PrimaryResponsesConc ==
    {resp \in PrimaryResponses :
        resp.kind = "error" \/ (resp.kind = "ok" /\ resp.raw[1] = "*")}

\* The secondary provider's answers in the concurrent specification.
SecondaryResponsesConc == {resp \in SecondaryResponses : resp.kind = "error"}

\* Arguments of remove_translation_item.
RemoveArgs == {Hello, FillerTr(3), <<"n", "o">>}

-----------------------------------------------------------------------------
(* State *)

Workers == {"w1", "w2"}

Gui == "gui"

Threads == Workers \cup {Gui}

VARIABLES
    cache,              \* _translation_cache
    file,               \* the content of CACHE_FILE
    LAST_REQUEST_TIME,  \* the global of _wait_rate_limit
    now,                \* time.time(), in ticks
    GoogleTranslator,   \* TRUE iff googletrans was imported
    detect,             \* TRUE iff langdetect was imported
    concurrent,         \* FALSE: one cache operation at a time
    quota,              \* per thread: the operations it may still start
    th,                 \* per thread: position and locals of its operation
    trimlog,            \* history: the cache read and the keys popped by the last evicting _trim_cache
    oplog,              \* history: the last two completed operations, oldest first
    proceeds,           \* history: the last two times _wait_rate_limit let a caller proceed
    win,                \* the window: language selection, label, timer, tasks in flight
    submitted,          \* history: the number of requests the window has submitted
    completed,          \* history: the completed requests [gen, result], in completion order
    histlog,            \* history: the last two calls of get_translation_history
    swaplog,            \* history: the selections before and after the last swap_languages
    exited,             \* TRUE iff the process has exited
    bootlog,            \* history: the file read and the cache loaded by the last startup
    cleanlog            \* history: the last call of clean_translation

vars == <<cache, file, LAST_REQUEST_TIME, now, GoogleTranslator, detect,
          concurrent, quota, th, trimlog, oplog, proceeds, win, submitted, completed,
          histlog, swaplog, exited, bootlog, cleanlog>>

\* The window's part of the state.
window == <<win, submitted, completed>>

\* The histories of the operations outside translate_text, and the end of
\* the process.
logs == <<histlog, swaplog, exited, bootlog, cleanlog>>

NoEntry == [translation |-> <<>>, count |-> 0, time |-> 0]

\* A thread that is running nothing.
IdleThread ==
    [pc |-> "idle", op |-> "none",
     text |-> <<>>, key |-> <<>>, attempt |-> 0, wake |-> 0, tmp |-> 0,
     attached |-> FALSE, entry |-> NoEntry, keys |-> {}, data |-> <<>>,
     prim |-> <<>>, sleeps |-> <<>>, sec |-> "none", raw |-> <<>>,
     outcome |-> "none", ret |-> <<>>, pre |-> <<>>, lrt |-> 0, had |-> 0,
     unlinked |-> FALSE]

InitWith(files, conc, q, libs) ==
    /\ \E f \in files :
         /\ file = f
         /\ cache = LoadCache(f, StartTime)
         /\ bootlog = [n |-> 1, file |-> f, saved |-> FALSE, before |-> <<>>,
                       cache |-> LoadCache(f, StartTime)]
    /\ LAST_REQUEST_TIME = 0
    /\ now = StartTime
    /\ GoogleTranslator \in libs
    /\ detect \in libs
    /\ concurrent = conc
    /\ quota = q
    /\ th = [t \in Threads |-> IdleThread]
    /\ trimlog = [before |-> <<>>, popped |-> {}]
    /\ oplog = <<>>
    /\ proceeds = <<>>
    /\ win = [source_lang |-> es, target_lang |-> en, translated_label |-> <<>>,
              loading_timer |-> FALSE, loading_step |-> 0, tasks |-> <<>>,
              src_combo |-> 1, dest_combo |-> 1, input_edit |-> <<>>]
    /\ submitted = 0
    /\ completed = <<>>
    /\ histlog = <<>>
    /\ swaplog = <<>>
    /\ exited = FALSE
    /\ cleanlog = <<>>

Init ==
    InitWith(StartupFiles, FALSE,
             [t \in Threads |-> IF t = "w1" THEN MaxCalls
                                ELSE IF t = Gui THEN MaxUiOps ELSE 0],
             BOOLEAN)

InitRepeat ==
    InitWith(StartupFilesRepeat, FALSE,
             [t \in Threads |-> IF t = "w1" THEN MaxCalls + 1 ELSE 0],
             {TRUE})

InitWin ==
    InitWith({MissingFile}, FALSE, [t \in Threads |-> 0], {TRUE})

InitConc ==
    InitWith(StartupFilesConc, TRUE,
             [t \in Threads |-> IF t = Gui THEN MaxUiOps ELSE MaxCalls],
             {TRUE})

-----------------------------------------------------------------------------
(* Helpers of the actions *)

Max(a, b) == IF a >= b THEN a ELSE b

\* A thread may start an operation: while it has quota, and in the
\* sequential specification only when nothing else runs.
MayStart(t) ==
    /\ ~exited
    /\ th[t].pc = "idle"
    /\ quota[t] > 0
    /\ concurrent \/ \A u \in Threads : th[u].pc = "idle"

\* A detection without the fallback: the detected code as it is.
detect_language_NoFallback(d) ==
    IF ~detect THEN en
    ELSE IF d.raises THEN en
    ELSE d.code

\* detect_language(text), given what detect(text) does.
detect_language(d) ==
    IF ~detect THEN en
    ELSE IF d.raises THEN en
    ELSE LET code == IF Len(d.code) >= 2 /\ SubSeq(d.code, 1, 2) = zh
                     THEN zh ELSE d.code
         IN  IF code \in LANG_PROMPT_NAMES THEN code ELSE en

\* A linear backoff, 2 * attempt + 1.
BackoffDelay_Linear(attempt) == (2 * attempt + 1) * TicksPerSecond

\* time.sleep(2 ** attempt + 1), in ticks.
BackoffDelay(attempt) == (2 ^ attempt + 1) * TicksPerSecond

\* A loop that also retries the third HTTP 429.
RetryAfter429_Third(attempt) == attempt < 3

\* http_err.code == 429 and attempt < 2
RetryAfter429(attempt) == attempt < 2

\* The entry translate_text stores after a provider success.
NewCount == 1

\* The count of the entry the cache c has under key k when translate_text
\* writes its entry, 0 when there is none.
CountOf(c, k) == IF Has(c, k) THEN Get(c, k).count ELSE 0

\* A loop that goes on to the next attempt after a failure.
AfterFailure_NextAttempt(attempt) ==
    IF attempt + 1 < MaxAttempts THEN "rl_read" ELSE "secondary"

\* Lines 320-324: print and break, after an HTTP error that is not retried
\* or any other exception: the loop is left for the secondary provider.
AfterFailure(attempt) == "secondary"

\* The provider's text, not cleaned.
PrimaryTranslation_Raw(raw_text) == raw_text

\* The value translate_text stores and returns after a primary success.
PrimaryTranslation(raw_text) == clean_translation(raw_text)

\* The value translate_text stores and returns after a secondary success.
SecondaryTranslation(text) == text

\* An empty result in place of the input text.
PassThrough_Empty(text) == <<>>

\* The value translate_text returns when no provider succeeded.
PassThrough(text) == text

\* The thread r holds, in its local `entry`, the dict object the cache has
\* under one of the keys ks.
Holding(r, ks) ==
    /\ r.pc \in {"hit_getcount", "hit_setcount", "hit_time"}
    /\ r.attached
    /\ r.key \in ks

\* The keys ks leave the cache c (popped, or their dict replaced by a new
\* one): a thread holding one of their dicts keeps the object to itself.
Detached(r, ks, c) ==
    IF Holding(r, ks)
    THEN LET it == Get(c, r.key)
         IN  [r EXCEPT !.attached = FALSE,
                       !.entry = [translation |-> it.translation,
                                  count |-> it.count, time |-> it.time]]
    ELSE r

\* The entry of thread r: the cache's item while attached, else its own.
EntryOf(r) == IF r.attached THEN Get(cache, r.key) ELSE r.entry

\* The record of a freshly started operation.
Started(r, op, text, key, pc) ==
    [IdleThread EXCEPT !.op = op, !.text = text,
                       !.key = key, !.pc = pc, !.pre = cache,
                       !.lrt = LAST_REQUEST_TIME]

\* The history entry of the operation of r that completes, as outcome with
\* return value ret, when the cache is c.
LogEntry(r, outcome, ret, c) ==
    [op |-> r.op, text |-> r.text, key |-> r.key, outcome |-> outcome,
     ret |-> ret, prim |-> r.prim, sleeps |-> r.sleeps, sec |-> r.sec,
     raw |-> r.raw, pre |-> r.pre, post |-> c,
     lrt |-> r.lrt, lrt_post |-> LAST_REQUEST_TIME, had |-> r.had]

\* What the history keeps of the operation before the last one.
Summary(e) ==
    [e EXCEPT !.prim = <<>>, !.sleeps = <<>>, !.sec = "none", !.raw = <<>>,
              !.pre = <<>>, !.post = <<>>, !.lrt = 0, !.lrt_post = 0,
              !.had = 0]

Logged(log, e) == IF log = <<>> THEN <<e>> ELSE <<Summary(log[Len(log)]), e>>

\* The process's configuration, fixed at import time.
conf == <<GoogleTranslator, detect, concurrent>>

-----------------------------------------------------------------------------
(* translate_text, one step per access to shared state *)

\* Lines 275-278: resolve "auto", build the key, test `key in cache`.
Call(t, text, src, tgt, d) ==
    /\ t \in Workers
    /\ MayStart(t)
    /\ quota' = [quota EXCEPT ![t] = @ - 1]
    /\ LET source_lang == IF src = auto THEN detect_language(d) ELSE src
           key == <<text, source_lang, tgt>>
       IN  th' = [th EXCEPT ![t] =
                    Started(th[t], "translate", text, key,
                            IF Has(cache, key) THEN "hit_read" ELSE "rl_read")]
    /\ UNCHANGED <<cache, file, LAST_REQUEST_TIME, now, conf, window, logs, trimlog, oplog,
                   proceeds>>

\* Line 279: entry = _translation_cache[key]; KeyError when the key is gone.
HitRead(t) ==
    /\ ~exited
    /\ th[t].pc = "hit_read"
    /\ IF Has(cache, th[t].key)
       THEN /\ th' = [th EXCEPT ![t].pc = "hit_getcount", ![t].attached = TRUE]
            /\ UNCHANGED oplog
       ELSE /\ th' = [th EXCEPT ![t] = IdleThread]
            /\ oplog' = Logged(oplog, LogEntry(th[t], "raised", <<>>, cache))
    /\ UNCHANGED <<cache, file, LAST_REQUEST_TIME, now, conf, window, logs, quota, trimlog,
                   proceeds>>

\* Line 280, right side: entry.get("count", 0) + 1 reads the count.
HitGetCount(t) ==
    /\ ~exited
    /\ th[t].pc = "hit_getcount"
    /\ th' = [th EXCEPT ![t].pc = "hit_setcount",
                        ![t].tmp = EntryOf(th[t]).count]
    /\ UNCHANGED <<cache, file, LAST_REQUEST_TIME, now, conf, window, logs, quota, trimlog,
                   oplog, proceeds>>

\* Line 280, left side: entry["count"] = ...
HitSetCount(t) ==
    /\ ~exited
    /\ th[t].pc = "hit_setcount"
    /\ LET r == th[t]
           e == EntryOf(r)
       IN  IF r.attached
           THEN /\ cache' = Put(cache, r.key, e.translation, r.tmp + 1, e.time)
                /\ th' = [th EXCEPT ![t].pc = "hit_time"]
           ELSE /\ th' = [th EXCEPT ![t].pc = "hit_time",
                                    ![t].entry.count = r.tmp + 1]
                /\ UNCHANGED cache
    /\ UNCHANGED <<file, LAST_REQUEST_TIME, now, conf, window, logs, quota, trimlog, oplog,
                   proceeds>>

\* A hit that also passes the rate limiter: it writes LAST_REQUEST_TIME.
HitTime_Throttled(t) ==
    /\ ~exited
    /\ th[t].pc = "hit_time"
    /\ th[t].attached
    /\ LAST_REQUEST_TIME' = now
    /\ cache' = Put(cache, th[t].key, EntryOf(th[t]).translation,
                    EntryOf(th[t]).count, now)
    /\ th' = [th EXCEPT ![t].pc = "trim", ![t].outcome = "hit",
                        ![t].ret = EntryOf(th[t]).translation]
    /\ UNCHANGED <<file, now, conf, window, logs, quota, trimlog, oplog, proceeds>>

\* Line 281: entry["time"] = time.time(); line 283's return value is the
\* translation of the same dict.
HitTime(t) ==
    /\ ~exited
    /\ th[t].pc = "hit_time"
    /\ LET r == th[t]
           e == EntryOf(r)
       IN  IF r.attached
           THEN /\ cache' = Put(cache, r.key, e.translation, e.count, now)
                /\ th' = [th EXCEPT ![t].pc = "trim", ![t].outcome = "hit",
                                    ![t].ret = e.translation]
           ELSE /\ th' = [th EXCEPT ![t].pc = "trim", ![t].outcome = "hit",
                                    ![t].ret = e.translation,
                                    ![t].entry.time = now]
                /\ UNCHANGED cache
    /\ UNCHANGED <<file, LAST_REQUEST_TIME, now, conf, window, logs, quota, trimlog, oplog,
                   proceeds>>

\* _wait_rate_limit, line 267: elapsed = time.time() - LAST_REQUEST_TIME, and
\* line 268's test; a caller that must sleep asks for MIN - elapsed.
RlRead(t) ==
    /\ ~exited
    /\ th[t].pc = "rl_read"
    /\ LET elapsed == now - LAST_REQUEST_TIME
       IN  IF elapsed < MIN_REQUEST_INTERVAL
           THEN th' = [th EXCEPT ![t].pc = "rl_sleep",
                                 ![t].wake = now + (MIN_REQUEST_INTERVAL - elapsed)]
           ELSE th' = [th EXCEPT ![t].pc = "rl_write"]
    /\ UNCHANGED <<cache, file, LAST_REQUEST_TIME, now, conf, window, logs, quota, trimlog,
                   oplog, proceeds>>

\* Line 269: time.sleep returns once the requested time has passed.
RlSleep(t) ==
    /\ ~exited
    /\ th[t].pc = "rl_sleep"
    /\ now' = Max(now, th[t].wake)
    /\ th' = [th EXCEPT ![t].pc = "rl_write", ![t].wake = 0]
    /\ UNCHANGED <<cache, file, LAST_REQUEST_TIME, conf, window, logs, quota, trimlog, oplog,
                   proceeds>>

\* Line 270: LAST_REQUEST_TIME = time.time(); the caller proceeds.
RlWrite(t) ==
    /\ ~exited
    /\ th[t].pc = "rl_write"
    /\ LAST_REQUEST_TIME' = now
    /\ proceeds' = IF proceeds = <<>> THEN <<now>>
                   ELSE <<proceeds[Len(proceeds)], now>>
    /\ th' = [th EXCEPT ![t].pc = "request"]
    /\ UNCHANGED <<cache, file, now, conf, window, logs, quota, trimlog, oplog>>

\* Lines 296-324: one request to the primary provider and what follows it.
Request(t, resp) ==
    /\ ~exited
    /\ th[t].pc = "request"
    /\ LET r == th[t]
           raw_text == strip(resp.raw, Whitespace)
           translated == PrimaryTranslation(raw_text)
       IN  IF resp.kind = "ok" /\ raw_text # <<>>
           THEN /\ cache' = Put(cache, r.key, translated, NewCount, now)
                /\ th' = [u \in Threads |->
                            IF u = t
                            THEN [r EXCEPT !.pc = "trim", !.outcome = "primary",
                                           !.ret = translated, !.raw = resp.raw,
                                           !.prim = Append(@, resp),
                                           !.had = CountOf(cache, r.key)]
                            ELSE Detached(th[u], {r.key}, cache)]
           ELSE IF resp.kind = "ok"
           THEN /\ th' = [th EXCEPT ![t].prim = Append(@, resp),
                                    ![t].attempt = @ + 1,
                                    ![t].pc = IF r.attempt + 1 < MaxAttempts
                                              THEN "rl_read" ELSE "secondary"]
                /\ UNCHANGED cache
           ELSE IF resp.kind = "http429" /\ RetryAfter429(r.attempt)
           THEN /\ th' = [th EXCEPT ![t].prim = Append(@, resp),
                                    ![t].pc = "backoff",
                                    ![t].wake = now + BackoffDelay(r.attempt),
                                    ![t].sleeps = Append(@, BackoffDelay(r.attempt))]
                /\ UNCHANGED cache
           ELSE /\ th' = [th EXCEPT ![t].prim = Append(@, resp),
                                    ![t].pc = AfterFailure(r.attempt)]
                /\ UNCHANGED cache
    /\ UNCHANGED <<file, LAST_REQUEST_TIME, now, conf, window, logs, quota, trimlog, oplog,
                   proceeds>>

\* Lines 318-319: time.sleep(2 ** attempt + 1) returns; continue the loop.
Backoff(t) ==
    /\ ~exited
    /\ th[t].pc = "backoff"
    /\ now' = Max(now, th[t].wake)
    /\ th' = [th EXCEPT ![t].pc = "rl_read", ![t].attempt = @ + 1,
                        ![t].wake = 0]
    /\ UNCHANGED <<cache, file, LAST_REQUEST_TIME, conf, window, logs, quota, trimlog, oplog,
                   proceeds>>

\* A fallback that stores the input text it returns as a translation.
Secondary_StoresInput(t, resp) ==
    /\ ~exited
    /\ th[t].pc = "secondary"
    /\ LET r == th[t]
           translated == IF GoogleTranslator /\ resp.kind = "ok"
                         THEN SecondaryTranslation(resp.text)
                         ELSE PassThrough(r.text)
       IN  /\ cache' = Put(cache, r.key, translated, NewCount, now)
           /\ th' = [th EXCEPT ![t] =
                       [r EXCEPT !.pc = "trim",
                                 !.outcome = IF GoogleTranslator /\ resp.kind = "ok"
                                             THEN "secondary" ELSE "passthrough",
                                 !.ret = translated,
                                 !.sec = IF ~GoogleTranslator THEN "absent"
                                         ELSE resp.kind,
                                 !.raw = resp.text,
                                 !.had = CountOf(cache, r.key)]]
    /\ UNCHANGED <<file, LAST_REQUEST_TIME, now, conf, window, logs, quota, trimlog,
                   oplog, proceeds>>

\* Lines 326-342: the secondary provider, when there is one, else the input.
Secondary(t, resp) ==
    /\ ~exited
    /\ th[t].pc = "secondary"
    /\ LET r == th[t]
           translated == SecondaryTranslation(resp.text)
       IN  IF GoogleTranslator /\ resp.kind = "ok"
           THEN /\ cache' = Put(cache, r.key, translated, NewCount, now)
                /\ th' = [u \in Threads |->
                            IF u = t
                            THEN [r EXCEPT !.pc = "trim", !.outcome = "secondary",
                                           !.ret = translated, !.sec = "ok",
                                           !.raw = resp.text,
                                           !.had = CountOf(cache, r.key)]
                            ELSE Detached(th[u], {r.key}, cache)]
                /\ UNCHANGED oplog
           ELSE LET done == [r EXCEPT !.sec = IF GoogleTranslator THEN "error"
                                               ELSE "absent"]
                IN  /\ th' = [th EXCEPT ![t] = IdleThread]
                    /\ oplog' = Logged(oplog, LogEntry(done, "passthrough",
                                                       PassThrough(r.text), cache))
                    /\ UNCHANGED cache
    /\ UNCHANGED <<file, LAST_REQUEST_TIME, now, conf, window, logs, quota, trimlog,
                   proceeds>>

-----------------------------------------------------------------------------
(* _save_cache *)

\* _trim_cache: the length test, the sorted copy of the items and the pops.
Trim(t) ==
    /\ ~exited
    /\ th[t].pc = "trim"
    /\ LET popped == TrimVictims(cache)
       IN  /\ cache' = PopAll(cache, popped)
           /\ th' = [u \in Threads |->
                       IF u = t THEN [th[t] EXCEPT !.pc = "open"]
                       ELSE Detached(th[u], popped, cache)]
           /\ trimlog' = IF popped = {} THEN trimlog
                         ELSE [before |-> cache, popped |-> popped]
    /\ UNCHANGED <<file, LAST_REQUEST_TIME, now, conf, window, logs, quota, oplog, proceeds>>

\* Lines 96-104: open(CACHE_FILE, "w") truncates the file, and the dict
\* comprehension reads the cache.
Open(t) ==
    /\ ~exited
    /\ th[t].pc = "open"
    /\ file' = TruncatedFile
    /\ th' = [th EXCEPT ![t].pc = "dump", ![t].data = Dump(cache)]
    /\ UNCHANGED <<cache, LAST_REQUEST_TIME, now, conf, window, logs, quota, trimlog, oplog,
                   proceeds>>

\* Line 105: json.dump(data, f); the operation that saved returns. When
\* os.remove has run on the file since it was opened, the platform decides:
\* the data go to the removed file and CACHE_FILE stays as it is (POSIX), or
\* os.remove had no effect on the open file and the data are written to it.
DumpFile(t) ==
    /\ ~exited
    /\ th[t].pc = "dump"
    /\ file' \in IF th[t].unlinked THEN {file, JsonFile(th[t].data)}
                 ELSE {JsonFile(th[t].data)}
    /\ th' = [th EXCEPT ![t] = IdleThread]
    /\ oplog' = Logged(oplog, LogEntry(th[t], th[t].outcome, th[t].ret, cache))
    /\ UNCHANGED <<cache, LAST_REQUEST_TIME, now, conf, window, logs, quota, trimlog,
                   proceeds>>

-----------------------------------------------------------------------------
(* The history menu's operations, run by the GUI thread *)

\* Only the first key of c whose translation is the given one.
KeysOf_First(c, translation) ==
    LET hits == {j \in 1..Len(c) : c[j].translation = translation}
    IN  IF hits = {} THEN {}
        ELSE {c[CHOOSE j \in hits : \A k \in hits : j <= k].key}

\* The keys of the items of c whose translation is the given one.
KeysOf(c, translation) ==
    {c[i].key : i \in {j \in 1..Len(c) : c[j].translation = translation}}

\* remove_translation_item, lines 192-196: the keys whose translation matches.
RemoveItem(t, translation) ==
    /\ t = Gui
    /\ MayStart(t)
    /\ quota' = [quota EXCEPT ![t] = @ - 1]
    /\ th' = [th EXCEPT ![t] =
                [Started(th[t], "remove", translation, <<>>, "rm_pop")
                   EXCEPT !.keys = KeysOf(cache, translation)]]
    /\ UNCHANGED <<cache, file, LAST_REQUEST_TIME, now, conf, window, logs, trimlog, oplog,
                   proceeds>>

\* Lines 197-200: pop the keys; save only if there were any.
RemovePop(t) ==
    /\ ~exited
    /\ th[t].pc = "rm_pop"
    /\ LET r == th[t]
       IN  /\ cache' = PopAll(cache, r.keys)
           /\ IF r.keys # {}
              THEN /\ th' = [u \in Threads |->
                               IF u = t
                               THEN [r EXCEPT !.pc = "trim", !.outcome = "removed"]
                               ELSE Detached(th[u], r.keys, cache)]
                   /\ UNCHANGED oplog
              ELSE /\ th' = [th EXCEPT ![t] = IdleThread]
                   /\ oplog' = Logged(oplog, LogEntry(r, "remove_none", <<>>, cache))
    /\ UNCHANGED <<file, LAST_REQUEST_TIME, now, conf, window, logs, quota, trimlog, proceeds>>

\* clear_translation_history, line 172: _translation_cache.clear()
ClearHistory(t) ==
    /\ t = Gui
    /\ MayStart(t)
    /\ quota' = [quota EXCEPT ![t] = @ - 1]
    /\ cache' = <<>>
    /\ th' = [u \in Threads |->
                IF u = t THEN Started(th[t], "clear", <<>>, <<>>, "cl_file")
                ELSE Detached(th[u], Keys(cache), cache)]
    /\ UNCHANGED <<file, LAST_REQUEST_TIME, now, conf, window, logs, trimlog, oplog, proceeds>>

\* Lines 173-175: os.remove(CACHE_FILE) if it exists.
ClearFile(t) ==
    /\ ~exited
    /\ th[t].pc = "cl_file"
    /\ file' = MissingFile
    /\ th' = [u \in Threads |->
                IF u = t THEN IdleThread
                ELSE IF th[u].pc = "dump" THEN [th[u] EXCEPT !.unlinked = TRUE]
                ELSE th[u]]
    /\ oplog' = Logged(oplog, LogEntry(th[t], "cleared", <<>>, cache))
    /\ UNCHANGED <<cache, LAST_REQUEST_TIME, now, conf, window, logs, quota, trimlog,
                   proceeds>>

\* show_history_menu, line 915: history = get_translation_history()
GetHistory(t) ==
    /\ t = Gui
    /\ MayStart(t)
    /\ quota' = [quota EXCEPT ![t] = @ - 1]
    /\ UNCHANGED <<cache, file, LAST_REQUEST_TIME, now, conf, window, th, trimlog,
                   oplog, proceeds>>
    /\ UNCHANGED <<swaplog, exited, bootlog, cleanlog>>
    /\ LET call == [pre |-> cache, items |-> HistoryItems(cache),
                    ret |-> get_translation_history(cache), post |-> cache']
       IN  histlog' = IF histlog = <<>> THEN <<call>>
                      ELSE <<histlog[Len(histlog)], call>>

-----------------------------------------------------------------------------
(* The clock *)

\* Time passes.
Tick ==
    /\ now < StartTime + MaxTicks
    /\ now' = now + 1
    /\ UNCHANGED <<cache, file, LAST_REQUEST_TIME, conf, window, logs, quota, th, trimlog,
                   oplog, proceeds>>

-----------------------------------------------------------------------------
(* Specifications *)

Next ==
    \/ \E t \in Workers, text \in Texts, src \in SourceLangs,
          tgt \in TargetLangs, d \in DetectOutcomes : Call(t, text, src, tgt, d)
    \/ \E t \in Workers : HitRead(t)
    \/ \E t \in Workers : HitGetCount(t)
    \/ \E t \in Workers : HitSetCount(t)
    \/ \E t \in Workers : HitTime(t)
    \/ \E t \in Workers : RlRead(t)
    \/ \E t \in Workers : RlSleep(t)
    \/ \E t \in Workers : RlWrite(t)
    \/ \E t \in Workers, resp \in PrimaryResponses : Request(t, resp)
    \/ \E t \in Workers : Backoff(t)
    \/ \E t \in Workers, resp \in SecondaryResponses : Secondary(t, resp)
    \/ \E t \in Threads : Trim(t)
    \/ \E t \in Threads : Open(t)
    \/ \E t \in Threads : DumpFile(t)
    \/ \E tr \in RemoveArgs : RemoveItem(Gui, tr)
    \/ RemovePop(Gui)
    \/ ClearHistory(Gui)
    \/ ClearFile(Gui)
    \/ Tick

\* The steps of the concurrent specification: those of Next with fewer
\* inputs: the primary provider never answers HTTP 429, and time passes only
\* while a thread sleeps.
NextConc ==
    \/ \E t \in Workers, text \in Texts :
          Call(t, text, es, en, [raises |-> FALSE, code |-> es])
    \/ \E t \in Workers : HitRead(t)
    \/ \E t \in Workers : HitGetCount(t)
    \/ \E t \in Workers : HitSetCount(t)
    \/ \E t \in Workers : HitTime(t)
    \/ \E t \in Workers : RlRead(t)
    \/ \E t \in Workers : RlSleep(t)
    \/ \E t \in Workers : RlWrite(t)
    \/ \E t \in Workers, resp \in PrimaryResponsesConc : Request(t, resp)
    \/ \E t \in Workers, resp \in SecondaryResponsesConc : Secondary(t, resp)
    \/ \E t \in Threads : Trim(t)
    \/ \E t \in Threads : Open(t)
    \/ \E t \in Threads : DumpFile(t)
    \/ RemoveItem(Gui, Hello)
    \/ RemovePop(Gui)
    \/ ClearHistory(Gui)
    \/ ClearFile(Gui)

\* The steps of the specification of repeated calls: one worker's steps,
\* the primary provider never answering HTTP 429.
NextRepeat ==
    \/ \E t \in Workers, text \in Texts :
          Call(t, text, es, en, [raises |-> FALSE, code |-> es])
    \/ \E t \in Workers : HitRead(t)
    \/ \E t \in Workers : HitGetCount(t)
    \/ \E t \in Workers : HitSetCount(t)
    \/ \E t \in Workers : HitTime(t)
    \/ \E t \in Workers : RlRead(t)
    \/ \E t \in Workers : RlSleep(t)
    \/ \E t \in Workers : RlWrite(t)
    \/ \E t \in Workers, resp \in PrimaryResponsesConc : Request(t, resp)
    \/ \E t \in Workers, resp \in SecondaryResponses : Secondary(t, resp)
    \/ \E t \in Threads : Trim(t)
    \/ \E t \in Threads : Open(t)
    \/ \E t \in Threads : DumpFile(t)
    \/ Tick

\* The steps of the specification of the history menu: one worker's calls
\* and the GUI thread's get_translation_history, one at a time.
NextHist ==
    \/ NextRepeat
    \/ GetHistory(Gui)

\* One cache operation at a time.
Spec == Init /\ [][Next]_vars

InitHist ==
    InitWith(StartupFiles, FALSE,
             [t \in Threads |-> IF t = "w1" THEN MaxCalls + 1
                                ELSE IF t = Gui THEN MaxUiOps + 1 ELSE 0],
             {TRUE})

\* A worker and the history menu.
SpecHist == InitHist /\ [][NextHist]_vars

\* Worker threads and the GUI thread interleaved.
SpecConc == InitConc /\ [][NextConc]_vars

-----------------------------------------------------------------------------
(* The window: FloatingTranslatorWindow *)

\* Texts the window submits.
WinTexts == {Hola, <<"b">>}

\* What translate_text may return for a text: a translation, or the text.
TaskResults(text) == {Hello, <<"t", "b">>, PassThrough(text)}

\* "." * n
Dots(n) == [i \in 1..n |-> "."]

\* The cache and the rate limiter.
core == <<cache, file, LAST_REQUEST_TIME, now, conf, quota, th, trimlog,
          oplog, proceeds>>

\* on_text_changed(text): restart the loading dots, start the timer, and
\* start a TranslationTask on the thread pool.
on_text_changed(text) ==
    /\ submitted < MaxSubmits
    /\ submitted' = submitted + 1
    /\ win' = [win EXCEPT
                 !.loading_step = 1,
                 !.translated_label = Dots(1),
                 !.loading_timer = TRUE,
                 !.tasks = Append(@, [gen |-> submitted + 1, text |-> text,
                                      source_lang |-> win.source_lang,
                                      target_lang |-> win.target_lang])]
    /\ UNCHANGED <<core, logs, completed>>

\* _update_loading_dots, on the loading timer's timeout.
update_loading_dots ==
    /\ win.loading_timer
    /\ LET step == (win.loading_step + 1) % 4
       IN  win' = [win EXCEPT !.loading_step = step,
                              !.translated_label = Dots(step)]
    /\ UNCHANGED <<core, logs, submitted, completed>>

\* What _display_translation(text) does to the window w.
display_translation(w, text) ==
    [w EXCEPT !.loading_timer = FALSE, !.translated_label = text]

\* The i-th task in flight finishes with `result`: translation_ready runs
\* _display_translation and _cleanup_task.
translation_ready(i, result) ==
    /\ i \in 1..Len(win.tasks)
    /\ result \in TaskResults(win.tasks[i].text)
    /\ win' = [display_translation(win, result) EXCEPT
                 !.tasks = SubSeq(win.tasks, 1, i - 1)
                           \o SubSeq(win.tasks, i + 1, Len(win.tasks))]
    /\ completed' = Append(completed, [gen |-> win.tasks[i].gen, result |-> result])
    /\ UNCHANGED <<core, logs, submitted>>

NextWin ==
    \/ \E text \in WinTexts : on_text_changed(text)
    \/ update_loading_dots
    \/ \E i \in 1..MaxSubmits, result \in TaskResults(Hola) \cup TaskResults(<<"b">>) :
          translation_ready(i, result)

\* The window alone: tasks complete in any order, with any result.
SpecWin == InitWin /\ [][NextWin]_vars

-----------------------------------------------------------------------------
(* The language selection.  A window state ws is the pair [w, n] of the      *)
(* window's fields and the number of requests submitted.                     *)

\* What on_text_changed(text) does to the window state ws.
text_changed(ws, text) ==
    [w |-> [ws.w EXCEPT
              !.loading_step = 1,
              !.translated_label = Dots(1),
              !.loading_timer = TRUE,
              !.tasks = Append(@, [gen |-> ws.n + 1, text |-> text,
                                   source_lang |-> ws.w.source_lang,
                                   target_lang |-> ws.w.target_lang])],
     n |-> ws.n + 1]

\* language_changed: submit the stripped input text unless it is empty.
language_changed(ws) ==
    LET text == strip(ws.w.input_edit, Whitespace)
    IN  IF text # <<>> THEN text_changed(ws, text) ELSE ws

\* src_combo.setCurrentIndex(idx): when the index changes, currentIndexChanged
\* sets source_lang and then calls language_changed.
SetSrcIndex(ws, idx) ==
    IF idx = ws.w.src_combo THEN ws
    ELSE language_changed([ws EXCEPT !.w.src_combo = idx,
                                     !.w.source_lang = itemData(src_items, idx)])

\* dest_combo.setCurrentIndex(idx), likewise for target_lang.
SetDestIndex(ws, idx) ==
    IF idx = ws.w.dest_combo THEN ws
    ELSE language_changed([ws EXCEPT !.w.dest_combo = idx,
                                     !.w.target_lang = itemData(dest_items, idx)])

\* What swap_languages does to the window state ws.
Swapped(ws) ==
    LET src_code == itemData(src_items, ws.w.src_combo)
        dest_code == itemData(dest_items, ws.w.dest_combo)
        src_idx == findData(src_items, dest_code)
        dest_idx == findData(dest_items, src_code)
        ws1 == IF src_idx # -1 THEN SetSrcIndex(ws, src_idx) ELSE ws
    IN  IF dest_idx # -1 THEN SetDestIndex(ws1, dest_idx) ELSE ws1

\* The codes the user picks in the two combo boxes.
SourceChoices == {auto, es}

TargetChoices == {es, en}

\* The texts the user types into input_edit.
InputTexts == {<<>>, Hola}

\* The user picks the source language `code`.
select_source(code) ==
    LET ws == SetSrcIndex([w |-> win, n |-> submitted], findData(src_items, code))
    IN  /\ ws.n <= MaxLangSubmits
        /\ win' = ws.w
        /\ submitted' = ws.n
        /\ UNCHANGED <<core, logs, completed>>

\* The user picks the target language `code`.
select_target(code) ==
    LET ws == SetDestIndex([w |-> win, n |-> submitted], findData(dest_items, code))
    IN  /\ ws.n <= MaxLangSubmits
        /\ win' = ws.w
        /\ submitted' = ws.n
        /\ UNCHANGED <<core, logs, completed>>

\* The user edits the input box; nothing is connected to its textChanged.
type_text(text) ==
    /\ win' = [win EXCEPT !.input_edit = text]
    /\ UNCHANGED <<core, logs, submitted, completed>>

\* swap_languages, on a click of swap_btn.
swap_languages ==
    LET ws == Swapped([w |-> win, n |-> submitted])
    IN  /\ ws.n <= MaxLangSubmits
        /\ win' = ws.w
        /\ submitted' = ws.n
        /\ swaplog' = <<[src |-> itemData(src_items, win.src_combo),
                         dest |-> itemData(dest_items, win.dest_combo),
                         src_after |-> itemData(src_items, ws.w.src_combo),
                         dest_after |-> itemData(dest_items, ws.w.dest_combo),
                         source_lang |-> ws.w.source_lang,
                         target_lang |-> ws.w.target_lang,
                         n |-> submitted, n_after |-> ws.n]>>
        /\ UNCHANGED <<core, histlog, exited, bootlog, cleanlog, completed>>

NextLang ==
    \/ \E code \in SourceChoices : select_source(code)
    \/ \E code \in TargetChoices : select_target(code)
    \/ \E text \in InputTexts : type_text(text)
    \/ swap_languages

\* The window's language row.
SpecLang == InitWin /\ [][NextLang]_vars

-----------------------------------------------------------------------------
(* clean_translation on its own *)

\* The characters of the texts given to clean_translation.
CleanAlphabet == {"*", "-", " ", "\n", "a"}

\* The texts given to clean_translation: every text of at most MaxCleanLen
\* characters of the alphabet, and four longer ones.
CleanInputs ==
    UNION {[1..n -> CleanAlphabet] : n \in 0..MaxCleanLen}
    \cup { <<"*", "*", "H", "o", "l", "a", "*", "*">>,
           <<"-", " ", "*", "*", "A", "d", "i", "ó", "s", " ", "a", "m", "i",
             "g", "o", "*", "*", "\n", "e", "x", "t", "r", "a", " ", "l", "i",
             "n", "e">>,
           <<"p", "l", "a", "i", "n", " ", "t", "e", "x", "t">>,
           <<"a", " ", "*", "*", "b", "*", "*", " ", "c">> }

\* A call clean_translation(raw): it raises, or returns.
clean_call(raw) ==
    /\ cleanlog' = <<[raw |-> raw, raises |-> clean_raises(raw),
                      ret |-> IF clean_raises(raw) THEN <<>>
                              ELSE clean_translation(raw)]>>
    /\ UNCHANGED <<core, window, histlog, swaplog, exited, bootlog>>

NextClean == \E raw \in CleanInputs : clean_call(raw)

\* Calls of clean_translation.
SpecClean == InitWin /\ [][NextClean]_vars

-----------------------------------------------------------------------------
(* Restarting the process *)

\* The in-memory cache is what the last _save_cache of this run wrote: the
\* last completed operation ended with a save and left this cache.
SavedByRun ==
    /\ oplog # <<>>
    /\ oplog[Len(oplog)].outcome \in {"hit", "primary", "secondary"}
    /\ oplog[Len(oplog)].post = cache

\* The process ends with no operation in flight and is started again: the
\* module is imported, lines 46-74.
Restart ==
    /\ ~exited
    /\ \A t \in Threads : th[t].pc = "idle"
    /\ bootlog.n < MaxBoots
    /\ cache' = LoadCache(file, now)
    /\ LAST_REQUEST_TIME' = 0
    /\ bootlog' = [n |-> bootlog.n + 1, file |-> file, saved |-> SavedByRun,
                   before |-> cache, cache |-> LoadCache(file, now)]
    /\ UNCHANGED <<file, now, conf, window, quota, th, trimlog, oplog, proceeds,
                   histlog, swaplog, exited, cleanlog>>

\* One worker's calls, and restarts of the process.
NextBoot ==
    \/ \E t \in Workers, text \in TextsBoot :
          Call(t, text, es, en, [raises |-> FALSE, code |-> es])
    \/ \E t \in Workers : HitRead(t)
    \/ \E t \in Workers : HitGetCount(t)
    \/ \E t \in Workers : HitSetCount(t)
    \/ \E t \in Workers : HitTime(t)
    \/ \E t \in Workers : RlRead(t)
    \/ \E t \in Workers : RlSleep(t)
    \/ \E t \in Workers : RlWrite(t)
    \/ \E t \in Workers, resp \in PrimaryResponsesConc : Request(t, resp)
    \/ \E t \in Workers, resp \in SecondaryResponsesConc : Secondary(t, resp)
    \/ \E t \in Workers : Trim(t)
    \/ \E t \in Workers : Open(t)
    \/ \E t \in Workers : DumpFile(t)
    \/ Restart
    \/ Tick

InitBoot ==
    InitWith(StartupFilesBoot, FALSE,
             [t \in Threads |-> IF t = "w1" THEN MaxCalls + 1 ELSE 0],
             {TRUE})

\* A process that is restarted.
SpecBoot == InitBoot /\ [][NextBoot]_vars

-----------------------------------------------------------------------------
(* Closing the window.  QThreadPool runs the TranslationTasks; the hotkey    *)
(* handler calls translate_text on a daemon thread of its own.               *)

\* The thread of the worker pool.
PoolThread == "w1"

\* The daemon thread that runs handle_hotkey.
HotkeyThread == "w2"

\* closeEvent: thread_pool.waitForDone() returns once the pool's tasks are
\* done; the window closes, app.exec() returns and the process exits, which
\* ends the daemon threads wherever they are.
closeEvent ==
    /\ ~exited
    /\ th[PoolThread].pc = "idle"
    /\ exited' = TRUE
    /\ UNCHANGED <<core, window, histlog, swaplog, bootlog, cleanlog>>

\* A pool task translate_text(text, "es", "en"), a hotkey
\* translate_text(text, "auto", "en"), and the close of the window.
NextExit ==
    \/ \E text \in Texts :
          Call(PoolThread, text, es, en, [raises |-> FALSE, code |-> es])
    \/ \E text \in Texts :
          Call(HotkeyThread, text, auto, en, [raises |-> FALSE, code |-> es])
    \/ \E t \in Workers : HitRead(t)
    \/ \E t \in Workers : HitGetCount(t)
    \/ \E t \in Workers : HitSetCount(t)
    \/ \E t \in Workers : HitTime(t)
    \/ \E t \in Workers : RlRead(t)
    \/ \E t \in Workers : RlSleep(t)
    \/ \E t \in Workers : RlWrite(t)
    \/ \E t \in Workers, resp \in PrimaryResponsesConc : Request(t, resp)
    \/ \E t \in Workers, resp \in SecondaryResponsesConc : Secondary(t, resp)
    \/ \E t \in Workers : Trim(t)
    \/ \E t \in Workers : Open(t)
    \/ \E t \in Workers : DumpFile(t)
    \/ closeEvent

InitExit ==
    InitWith(StartupFilesConc, TRUE,
             [t \in Threads |-> IF t = Gui THEN 0 ELSE MaxCalls],
             {TRUE})

\* The worker pool, the hotkey thread and the close of the window.
SpecExit == InitExit /\ [][NextExit]_vars

\* One worker, calling translate_text again and again.
SpecRepeat == InitRepeat /\ [][NextRepeat]_vars

-----------------------------------------------------------------------------
(* Termination of translate_text *)

\* The cache files the specification of termination starts from: none, and a
\* small one with a key the calls hit.
StartupFilesTerm == {MissingFile, JsonFile(LegacyData)}

InitTerm ==
    InitWith(StartupFilesTerm, FALSE,
             [t \in Threads |-> IF t = "w1" THEN MaxCalls ELSE 0],
             BOOLEAN)

\* The steps of one worker's calls, for every answer of the providers.
NextTerm ==
    \/ \E t \in Workers, text \in Texts :
          Call(t, text, es, en, [raises |-> FALSE, code |-> es])
    \/ \E t \in Workers : HitRead(t)
    \/ \E t \in Workers : HitGetCount(t)
    \/ \E t \in Workers : HitSetCount(t)
    \/ \E t \in Workers : HitTime(t)
    \/ \E t \in Workers : RlRead(t)
    \/ \E t \in Workers : RlSleep(t)
    \/ \E t \in Workers : RlWrite(t)
    \/ \E t \in Workers, resp \in PrimaryResponses : Request(t, resp)
    \/ \E t \in Workers : Backoff(t)
    \/ \E t \in Workers, resp \in SecondaryResponses : Secondary(t, resp)
    \/ \E t \in Threads : Trim(t)
    \/ \E t \in Threads : Open(t)
    \/ \E t \in Threads : DumpFile(t)
    \/ Tick

\* A step of the call thread t is running: the thread is scheduled, and
\* each provider call and each sleep returns.
Progress(t) ==
    \/ HitRead(t) \/ HitGetCount(t) \/ HitSetCount(t) \/ HitTime(t)
    \/ RlRead(t) \/ RlSleep(t) \/ RlWrite(t)
    \/ \E resp \in PrimaryResponses : Request(t, resp)
    \/ Backoff(t)
    \/ \E resp \in SecondaryResponses : Secondary(t, resp)
    \/ Trim(t) \/ Open(t) \/ DumpFile(t)

\* One worker's calls, every started call being run on.
SpecTerm ==
    InitTerm /\ [][NextTerm]_vars /\ \A t \in Workers : WF_vars(Progress(t))

-----------------------------------------------------------------------------
(* Primary answers made of markup *)

\* Answers of the primary provider: a wrapped translation, and texts made
\* only of markup characters.
PrimaryResponsesMarkup ==
    { [kind |-> "ok", raw |-> <<"*", "*", "H", "e", "l", "l", "o", "*", "*">>],
      [kind |-> "ok", raw |-> <<"*", "*", "*", "*">>],
      [kind |-> "ok", raw |-> <<"-", " ", "*">>] }

InitMarkup ==
    InitWith({MissingFile}, FALSE,
             [t \in Threads |-> IF t = "w1" THEN MaxCalls + 1 ELSE 0],
             {TRUE})

\* One worker's calls, the primary provider always answering with a text.
NextMarkup ==
    \/ \E t \in Workers, text \in Texts :
          Call(t, text, es, en, [raises |-> FALSE, code |-> es])
    \/ \E t \in Workers : HitRead(t)
    \/ \E t \in Workers : HitGetCount(t)
    \/ \E t \in Workers : HitSetCount(t)
    \/ \E t \in Workers : HitTime(t)
    \/ \E t \in Workers : RlRead(t)
    \/ \E t \in Workers : RlSleep(t)
    \/ \E t \in Workers : RlWrite(t)
    \/ \E t \in Workers, resp \in PrimaryResponsesMarkup : Request(t, resp)
    \/ \E t \in Threads : Trim(t)
    \/ \E t \in Threads : Open(t)
    \/ \E t \in Threads : DumpFile(t)
    \/ Tick

SpecMarkup == InitMarkup /\ [][NextMarkup]_vars

-----------------------------------------------------------------------------
(* Properties *)

\* The last completed operation, when there is one.
Last == oplog[Len(oplog)]

\* x ranks strictly lower than y by (count ascending, time ascending).
RanksLower(x, y) ==
    \/ x.count < y.count
    \/ x.count = y.count /\ x.time < y.time

\* C1: if request G1 is submitted before G2 and G2 completes before G1, the
\* label finally shows G2's result: once the newest request submitted has
\* completed and an older one completes after it, the label still shows the
\* newest request's result.
C1_NewestResultStays ==
    \A i \in 1..Len(completed) :
        ( /\ i < Len(completed)
          /\ completed[i].gen = submitted
          /\ win.tasks = <<>> )
        => win.translated_label = completed[i].result

\* C2: any two consecutive calls that _wait_rate_limit lets proceed are at
\* least MIN_REQUEST_INTERVAL (one second) apart.
C2_MinimumInterval ==
    Len(proceeds) = 2 => proceeds[2] - proceeds[1] >= 1 * TicksPerSecond

\* C3: after every completed mutating cache operation (insert, hit, removal
\* of at least one entry, clear) the cache holds at most 15 entries, whatever
\* the cache loaded at startup.
C3_CacheBounded ==
    ( /\ oplog # <<>>
      /\ Last.outcome \in {"primary", "secondary", "hit", "removed", "cleared"} )
    => Len(Last.post) <= 15

C3_Witness ==
    /\ oplog # <<>>
    /\ Last.outcome = "hit"
    /\ Len(Last.pre) = 17
    /\ Len(Last.post) = 15

\* C4: whenever _trim_cache evicts, it evicts exactly (size - 15) entries of
\* the cache, and no surviving entry ranks strictly lower by (count, time)
\* than an evicted one.
C4_EvictsLowestRanked ==
    trimlog.popped # {} =>
        LET before == trimlog.before
            gone == {i \in 1..Len(before) : before[i].key \in trimlog.popped}
            kept == (1..Len(before)) \ gone
        IN  /\ Cardinality(trimlog.popped) = Len(before) - 15
            /\ Cardinality(gone) = Len(before) - 15
            /\ \A g \in gone, k \in kept : ~RanksLower(before[k], before[g])

C4_Witness ==
    /\ Cardinality(trimlog.popped) = 3
    /\ \E i, j \in 1..Len(trimlog.before) :
          /\ trimlog.before[i].key \in trimlog.popped
          /\ trimlog.before[j].key \notin trimlog.popped
          /\ trimlog.before[i].count = trimlog.before[j].count
          /\ trimlog.before[i].time < trimlog.before[j].time

\* C5: a key inserted by translate_text after a provider success is found by
\* the next translate_text call with the same key: the call is a hit, returns
\* the stored translation and leaves the entry's count one higher.
C5_InsertedKeyIsHit ==
    ( /\ Len(oplog) = 2
      /\ oplog[1].op = "translate"
      /\ oplog[1].outcome \in {"primary", "secondary"}
      /\ Last.op = "translate"
      /\ Last.key = oplog[1].key )
    => /\ Last.outcome = "hit"
       /\ Last.ret = oplog[1].ret
       /\ Has(Last.pre, Last.key) /\ Has(Last.post, Last.key)
       /\ Get(Last.post, Last.key).count = Get(Last.pre, Last.key).count + 1

\* C6: under every interleaving with evictions, removals and clears, a
\* translate_text call returns a string and never raises.
C6_NeverRaises ==
    \A i \in 1..Len(oplog) : oplog[i].outcome # "raised"

\* C7: on a cache miss, when the primary provider yields no usable result
\* and the secondary provider is absent or fails, translate_text returns
\* exactly the input text.
C7_PassThrough ==
    ( /\ oplog # <<>>
      /\ Last.op = "translate"
      /\ Last.prim # <<>>
      /\ LET resp == Last.prim[Len(Last.prim)]
         IN  resp.kind # "ok" \/ strip(resp.raw, Whitespace) = <<>>
      /\ Last.sec \in {"absent", "error"} )
    => Last.ret = Last.text

C7_Witness ==
    /\ oplog # <<>>
    /\ Last.op = "translate"
    /\ Len(Last.prim) = 3
    /\ Last.prim[3].kind = "http429"
    /\ Last.sec = "error"
    /\ Last.ret = Hola

\* C8: three consecutive HTTP 429 answers give exactly two backoff sleeps, of
\* 2 and 3 seconds, no fourth primary attempt, and then the secondary
\* provider (when there is one).
C8_ThreeTimes429 ==
    /\ \A t \in Threads : Len(th[t].prim) <= 3 /\ Len(th[t].sleeps) <= 2
    /\ ( /\ oplog # <<>>
         /\ Len(Last.prim) >= 3
         /\ \A i \in 1..3 : Last.prim[i].kind = "http429" )
       => /\ Len(Last.prim) = 3
          /\ Last.sleeps = <<2 * TicksPerSecond, 3 * TicksPerSecond>>
          /\ Last.sec = IF GoogleTranslator
                        THEN (IF Last.outcome = "secondary" THEN "ok" ELSE "error")
                        ELSE "absent"

C8_Witness ==
    /\ oplog # <<>>
    /\ Len(Last.prim) = 3
    /\ \A i \in 1..3 : Last.prim[i].kind = "http429"
    /\ Last.outcome = "secondary"

\* The operation e stored translation tr under its key with count 1: the
\* entry is in the cache afterwards unless the trim evicted it, which it
\* cannot do when the cache held fewer than 15 entries before.
StoredAs(e, tr) ==
    /\ Has(e.post, e.key) =>
          /\ Get(e.post, e.key).translation = tr
          /\ Get(e.post, e.key).count = 1
    /\ Len(e.pre) < 15 => Has(e.post, e.key)

\* C9 as stated: on every provider success, primary or secondary, the value
\* stored and returned is clean(raw provider text), stored with count 1.
C9_AlwaysNormalized ==
    ( /\ oplog # <<>>
      /\ Last.outcome \in {"primary", "secondary"} )
    => /\ Last.ret = clean_translation(Last.raw)
       /\ StoredAs(Last, clean_translation(Last.raw))

\* C9, amended: on a primary success the value stored and returned is
\* clean(raw provider text); on a secondary success it is the secondary
\* provider's text as it is; both are stored with count 1.  With an empty
\* cache and the raw text "**Hello**\nnote" for ("Hola", "es", "en"), the
\* cache then holds "Hello" with count 1 and "Hello" is returned.
C9_NormalizedPrimaryOnly ==
    oplog # <<>> =>
        /\ Last.outcome = "primary" =>
              /\ Last.ret = clean_translation(Last.raw)
              /\ StoredAs(Last, clean_translation(Last.raw))
        /\ Last.outcome = "secondary" =>
              /\ Last.ret = Last.raw
              /\ StoredAs(Last, Last.raw)
        /\ ( /\ Last.outcome = "primary"
             /\ Last.pre = <<>>
             /\ Last.key = <<Hola, es, en>>
             /\ Last.raw = <<"*", "*", "H", "e", "l", "l", "o", "*", "*",
                             "\n", "n", "o", "t", "e">> )
           => /\ Last.ret = Hello
              /\ Len(Last.post) = 1
              /\ Last.post[1].key = <<Hola, es, en>>
              /\ Last.post[1].translation = Hello
              /\ Last.post[1].count = 1

C9_Witness ==
    /\ oplog # <<>>
    /\ Last.outcome = "primary"
    /\ Last.pre = <<>>
    /\ Last.key = <<Hola, es, en>>
    /\ Last.ret = Hello
    /\ Len(Last.post) = 1

\* The items of c whose translation differs from t, in c's order.
Others(c, t) == SelectSeq(c, LAMBDA it : it.translation # t)

\* C10 as stated: remove_translation_item(t) deletes every entry whose
\* translation is t and leaves every other entry present and unchanged.
C10_RemovesOnlyMatches ==
    ( /\ oplog # <<>>
      /\ Last.op = "remove" )
    => Last.post = Others(Last.pre, Last.text)

\* C10, amended: remove_translation_item(t) deletes every entry whose
\* translation is t; every entry it leaves is unchanged; all other entries
\* stay when t matched nothing or when at most 15 of them are left, and
\* otherwise (a cache loaded with more than 15 entries) the save that follows
\* the removal trims the cache to 15 entries.
C10_RemovesMatchesThenTrims ==
    ( /\ oplog # <<>>
      /\ Last.op = "remove" )
    => LET others == Others(Last.pre, Last.text)
       IN  /\ \A i \in 1..Len(Last.post) : Last.post[i].translation # Last.text
           /\ \A i \in 1..Len(Last.post) :
                 \E j \in 1..Len(others) : others[j] = Last.post[i]
           /\ (Len(others) <= 15 \/ others = Last.pre) => Last.post = others
           /\ (Len(others) > 15 /\ others # Last.pre) => Len(Last.post) = 15

C10_Witness ==
    /\ oplog # <<>>
    /\ Last.op = "remove"
    /\ Last.text = Hello
    /\ Len(Last.pre) = Len(Last.post) + 2
    /\ Len(Last.post) >= 1

\* The last call of get_translation_history, when there is one.
LastHistory == histlog[Len(histlog)]

\* The triple (translation, count, time) of a cache item.
Triple(it) == [translation |-> it.translation, count |-> it.count, time |-> it.time]

\* C11: get_translation_history returns exactly one (translation, count) pair
\* per cache entry, ordered by (count, time) descending, and does not modify
\* the cache; two calls with the same cache return the same sequence.
C11_HistoryOrdered ==
    histlog # <<>> =>
        LET h == LastHistory
            n == Len(h.pre)
        IN  /\ Len(h.items) = n /\ Len(h.ret) = n
            /\ \A i \in 1..n :
                  /\ h.ret[i] = <<h.items[i].translation, h.items[i].count>>
                  /\ Cardinality({j \in 1..n : h.items[j] = h.items[i]})
                       = Cardinality({j \in 1..n : Triple(h.pre[j]) = h.items[i]})
            /\ \A i, j \in 1..n :
                  i < j => ~RanksLower(h.items[i], h.items[j])
            /\ h.post = h.pre
            /\ (Len(histlog) = 2 /\ histlog[1].post = h.pre)
                  => histlog[1].ret = h.ret

C11_Witness ==
    /\ Len(histlog) = 2
    /\ histlog[1].post = LastHistory.pre
    /\ Len(LastHistory.ret) = 15
    /\ LastHistory.ret[1][2] > LastHistory.ret[15][2]
    /\ \E i \in 1..Len(LastHistory.pre) :
          Triple(LastHistory.pre[i]) # LastHistory.items[i]

\* C12: for every source selection (also "auto") and every target
\* selection, after swap_languages the source selection is the previous target
\* and the target selection is the previous source.
C12_SwapExchanges ==
    swaplog # <<>> =>
        /\ swaplog[1].src_after = swaplog[1].dest
        /\ swaplog[1].dest_after = swaplog[1].src

\* C13: when the close handler has returned and the process exits, no
\* translate_text call is in flight, neither in the worker pool nor on the
\* hotkey thread, so that no cache write or file write is cut off.
C13_NothingInFlightAtExit ==
    exited => \A t \in Workers : th[t].pc = "idle"

\* The file f is missing or corrupt: not JSON, or with an entry whose count
\* or time cannot be converted.
Corrupt(f) ==
    \/ f.kind \in {"missing", "invalid"}
    \/ \E i \in 1..Len(f.data) : f.data[i].v.form = "bad"

\* C14: if the cache file is missing or corrupt (not valid JSON, or with an
\* entry whose count or time cannot be converted), startup does not fail and
\* the in-memory cache is empty afterwards.
C14_CorruptFileGivesEmptyCache ==
    Corrupt(bootlog.file) => bootlog.cache = <<>>

\* The mapping of the cache c: its items, whatever their order.
Mapping(c) == {c[i] : i \in 1..Len(c)}

\* C15: a cache of at most 15 entries written by _save_cache and loaded by
\* the startup loader is the same mapping (keys, translations, counts,
\* times), also for source texts that contain "||".
C15_RoundTrip ==
    (bootlog.saved /\ Len(bootlog.before) <= 15)
        => Mapping(bootlog.cache) = Mapping(bootlog.before)

\* What C16 says clean_translation returns for raw: from the first line of
\* raw, without its leading '*', '-', bullet and spaces, the trimmed inner
\* text of the first part wrapped in double asterisks if there is one, and
\* otherwise the line without its wrapping asterisks.
CleanOfFirstLine(raw) ==
    LET line == strip(lstrip(FirstLine(raw), MarkupChars), Whitespace)
    IN  IF MatchStarts(line) # {}
        THEN strip(MatchGroup(line), Whitespace)
        ELSE strip(line, {"*"})

\* C16: clean_translation(raw) depends only on the first line of raw: it
\* returns, for every raw, the inner text wrapped in double asterisks of that
\* line, or the line without its wrapping asterisks; clean("**Hola**") is
\* "Hola" and clean("") is "".
C16_CleanOfFirstLine ==
    cleanlog # <<>> =>
        /\ ~cleanlog[1].raises
        /\ cleanlog[1].ret = CleanOfFirstLine(cleanlog[1].raw)

\* The entry of the cache item `it` after a hit: the same key and
\* translation, the count one higher, the time not earlier.
HitUpdate(a, b) ==
    /\ b.key = a.key
    /\ b.translation = a.translation
    /\ b.count = a.count + 1
    /\ b.time >= a.time

\* The last operation was a hit that returned the stored translation without
\* _wait_rate_limit and without a provider call.
HitWithoutProviders(e) ==
    /\ Has(e.pre, e.key)
    /\ e.ret = Get(e.pre, e.key).translation
    /\ e.prim = <<>> /\ e.sleeps = <<>> /\ e.sec = "none"
    /\ e.lrt_post = e.lrt

\* C17 as stated: a translate_text call whose key is in the cache returns the
\* stored translation without _wait_rate_limit or a provider call, leaves
\* LAST_REQUEST_TIME unchanged, and the only cache change is that entry's
\* count increased by 1 and its time refreshed.
C17_HitChangesOnlyEntry ==
    (oplog # <<>> /\ Last.outcome = "hit") =>
        /\ HitWithoutProviders(Last)
        /\ Len(Last.post) = Len(Last.pre)
        /\ \A i \in 1..Len(Last.pre) :
              IF Last.pre[i].key = Last.key
              THEN HitUpdate(Last.pre[i], Last.post[i])
              ELSE Last.post[i] = Last.pre[i]

\* C17, amended: a hit returns the stored translation without
\* _wait_rate_limit or a provider call and leaves LAST_REQUEST_TIME
\* unchanged; the entry's count is increased by 1 and its time refreshed; no
\* other entry is changed, and none is removed unless the cache holds more
\* than 15 entries, in which case the save trims it to 15.
C17_HitThenTrim ==
    (oplog # <<>> /\ Last.outcome = "hit") =>
        /\ HitWithoutProviders(Last)
        /\ \A j \in 1..Len(Last.post) :
              \E i \in 1..Len(Last.pre) :
                 IF Last.pre[i].key = Last.key
                 THEN HitUpdate(Last.pre[i], Last.post[j])
                 ELSE Last.post[j] = Last.pre[i]
        /\ Len(Last.pre) <= 15 =>
              /\ Len(Last.post) = Len(Last.pre)
              /\ Has(Last.post, Last.key)
              /\ Get(Last.post, Last.key).time >= StartTime
        /\ Len(Last.pre) > 15 => Len(Last.post) = 15

C17_Witness ==
    /\ Len(oplog) = 2
    /\ Last.outcome = "hit"
    /\ Last.lrt > 0
    /\ Len(Last.pre) = 15
    /\ Get(Last.post, Last.key).count = Get(Last.pre, Last.key).count + 1
    /\ Get(Last.post, Last.key).time > Get(Last.pre, Last.key).time

\* The primary provider's failures other than HTTP 429: another HTTP status,
\* a network error or a response that cannot be parsed.
HardFailures == {"http_other", "error"}

\* The positions of a request inside the loop over the primary attempts.
PrimaryLoop == {"rl_read", "rl_sleep", "rl_write", "request", "backoff"}

\* The number of HTTP 429 answers among the primary answers.
RECURSIVE Count429(_)
Count429(prim) ==
    IF prim = <<>> THEN 0
    ELSE (IF prim[1].kind = "http429" THEN 1 ELSE 0) + Count429(Tail(prim))

\* C18: a primary attempt that fails with anything other than HTTP 429 is the
\* request's last primary attempt; no backoff sleep follows it, and the
\* request goes on to the secondary provider (line 326).
C18_FailureEndsPrimary ==
    /\ \A t \in Threads : \A i \in 1..Len(th[t].prim) :
          th[t].prim[i].kind \in HardFailures =>
             /\ i = Len(th[t].prim)
             /\ th[t].pc \notin PrimaryLoop
             /\ th[t].wake = 0
             /\ Len(th[t].sleeps) = Count429(th[t].prim)
    /\ oplog # <<>> =>
          \A i \in 1..Len(Last.prim) :
             Last.prim[i].kind \in HardFailures =>
                /\ i = Len(Last.prim)
                /\ Len(Last.sleeps) = Count429(Last.prim)
                /\ Last.outcome \in {"secondary", "passthrough"}
                /\ Last.sec = IF GoogleTranslator
                              THEN (IF Last.outcome = "secondary"
                                    THEN "ok" ELSE "error")
                              ELSE "absent"

C18_Witness ==
    /\ oplog # <<>>
    /\ Len(Last.prim) = 2
    /\ Last.prim[1].kind = "http429"
    /\ Last.prim[2].kind = "http_other"
    /\ Last.sleeps = <<2 * TicksPerSecond>>
    /\ Last.sec = "ok"
    /\ Last.outcome = "secondary"

\* A primary answer that succeeded at the HTTP level with an empty text.
EmptySuccess(resp) == resp.kind = "ok" /\ strip(resp.raw, Whitespace) = <<>>

\* C19: a primary attempt that succeeds at the HTTP level with an empty (or
\* whitespace-only) text is the request's last primary attempt, and the
\* request falls through to the secondary provider.
C19_EmptyEndsPrimary ==
    /\ \A t \in Threads : \A i \in 1..Len(th[t].prim) :
          EmptySuccess(th[t].prim[i]) =>
             /\ i = Len(th[t].prim)
             /\ th[t].pc \notin PrimaryLoop
    /\ oplog # <<>> =>
          \A i \in 1..Len(Last.prim) :
             EmptySuccess(Last.prim[i]) =>
                /\ i = Len(Last.prim)
                /\ Last.outcome \in {"secondary", "passthrough"}

\* C20: when a request that missed the cache writes its provider result and
\* finds an entry a concurrent request for the same key has stored meanwhile,
\* it increments that entry's count instead of overwriting it with count 1.
C20_SecondWriteIncrements ==
    \A t \in Workers :
        ( /\ th[t].pc = "trim"
          /\ th[t].outcome \in {"primary", "secondary"}
          /\ ~Has(th[t].pre, th[t].key)
          /\ th[t].had > 0 )
        => /\ Has(cache, th[t].key)
           /\ Get(cache, th[t].key).count = th[t].had + 1

\* Both workers have called translate_text on the key k, both calls were
\* hits and have returned, and nothing else has touched the cache.
TwoHitsReturned(k) ==
    /\ Len(oplog) = 2
    /\ \A i \in 1..2 : oplog[i].op = "translate" /\ oplog[i].outcome = "hit"
                       /\ oplog[i].key = k
    /\ \A t \in Threads : th[t].pc = "idle"
    /\ quota[Gui] = MaxUiOps
    /\ Has(bootlog.cache, k)
    /\ Has(cache, k)

\* C21: when k concurrent translate_text calls on the same cached key have
\* all returned and the key has stayed in the cache, the entry's count has
\* increased by exactly k (here k = 2, the two workers).
C21_NoLostUpdate ==
    \A k \in Keys(bootlog.cache) :
        TwoHitsReturned(k) =>
            Get(cache, k).count = Get(bootlog.cache, k).count + 2

\* The persisted store equals the cache c: the file holds what _save_cache
\* writes for c, an absent file counting as the empty cache.
Persisted(c) ==
    IF file.kind = "missing" THEN c = <<>>
    ELSE /\ file.kind = "json"
         /\ {file.data[i] : i \in 1..Len(file.data)}
               = {Dump(c)[i] : i \in 1..Len(Dump(c))}

\* C22: whenever no cache operation is in progress, the persisted store
\* equals the in-memory cache, for every interleaving of concurrent
\* translate_text calls, remove_translation_item and
\* clear_translation_history.
C22_WriteThrough ==
    (\A t \in Threads : th[t].pc = "idle") => Persisted(cache)

\* C23: "auto" is resolved to a code of the fixed table before the cache key
\* is built: no request in progress and no cache entry has a key whose source
\* language is "auto" or outside the table.
C23_NoAutoKey ==
    /\ \A i \in 1..Len(cache) :
          cache[i].key[2] # auto /\ cache[i].key[2] \in LANG_PROMPT_NAMES
    /\ \A t \in Workers :
          th[t].op = "translate" =>
             th[t].key[2] # auto /\ th[t].key[2] \in LANG_PROMPT_NAMES
    /\ \A i \in 1..Len(oplog) :
          oplog[i].op = "translate" => oplog[i].key[2] \in LANG_PROMPT_NAMES

\* A call with source "auto" (the only way to a key with source "en" or
\* "zh", given SourceLangs) has stored its result under the resolved code.
C23_Witness ==
    /\ oplog # <<>>
    /\ Last.op = "translate"
    /\ Last.outcome \in {"primary", "secondary"}
    /\ Last.key[2] = en
    /\ Has(cache, Last.key)
    /\ \E i \in 1..Len(cache) : cache[i].key[2] = en

\* C24: every entry of the in-memory cache has count >= 1 in every reachable
\* state, also the entries loaded at startup from a file in the legacy form
\* or without a count field.
C24_CountAtLeastOne ==
    \A i \in 1..Len(cache) : cache[i].count >= 1

\* C25: every translate_text call terminates, provided each provider call
\* and each sleep returns; it makes at most 3 primary attempts, at most 2
\* backoff sleeps, and at most 1 secondary attempt (the secondary provider
\* is asked only by a call that has not asked it yet, and the call leaves
\* that step at once).
C25_Terminates ==
    /\ [](\A t \in Workers :
            (Len(th[t].prim) <= 3) /\ (Len(th[t].sleeps) <= 2)
            /\ (th[t].pc = "secondary" => th[t].sec = "none"))
    /\ [][\A t \in Workers :
             th[t].pc = "secondary" => th'[t].pc # "secondary"]_th
    /\ \A t \in Workers : (th[t].pc # "idle") ~> (th[t].pc = "idle")

\* A call that used every attempt: three primary requests, two backoff
\* sleeps, one failed secondary request, and it returned.
C25_Witness ==
    /\ oplog # <<>>
    /\ Last.op = "translate"
    /\ Len(Last.prim) = 3
    /\ Len(Last.sleeps) = 2
    /\ Last.sec = "error"
    /\ Last.outcome = "passthrough"
    /\ \A t \in Workers : th[t].pc = "idle"

\* C26: while at least one request submitted through on_text_changed is
\* outstanding, the loading timer is active, whatever the order in which
\* concurrent requests complete.
C26_TimerWhileOutstanding ==
    win.tasks # <<>> => win.loading_timer

\* The positions of a call that has missed the cache and stored nothing yet.
BeforeStore == PrimaryLoop \cup {"secondary"}

\* A step of the call of thread t from a position before any store to
\* another such position, or to its return.
StepWithoutStore(t) ==
    /\ th[t].op = "translate"
    /\ th[t].pc \in BeforeStore
    /\ th'[t].pc \in BeforeStore \cup {"idle"}

\* C27: when both providers fail and translate_text returns the input text,
\* the in-memory cache and the persisted store are unchanged (no step of the
\* call writes either, and the text is not stored as a translation), so a
\* later call with the same key misses again and asks the providers again.
C27_PassThroughStoresNothing ==
    /\ []((oplog # <<>> /\ Last.outcome = "passthrough") =>
             ((Last.post = Last.pre) /\ ~Has(Last.post, Last.key)
              /\ (Last.ret = Last.text)))
    /\ []((Len(oplog) = 2 /\ oplog[1].outcome = "passthrough"
           /\ Last.op = "translate" /\ Last.key = oplog[1].key) =>
             ((Last.outcome # "hit") /\ (Last.prim # <<>>)))
    /\ [][\A t \in Workers :
             StepWithoutStore(t) => (cache' = cache /\ file' = file)]_vars

\* A call returned the input text, and the next call with the same key asked
\* the primary provider again and stored its answer.
C27_Witness ==
    /\ Len(oplog) = 2
    /\ oplog[1].outcome = "passthrough"
    /\ Last.op = "translate"
    /\ Last.key = oplog[1].key
    /\ Last.outcome = "primary"
    /\ Has(cache, Last.key)

\* The requests submitted during the last swap_languages.
SubmittedBySwap ==
    {i \in 1..Len(win.tasks) :
        /\ win.tasks[i].gen > swaplog[1].n
        /\ win.tasks[i].gen <= swaplog[1].n_after}

\* C28: every request submitted during one swap_languages carries the fully
\* swapped pair (old target, old source), never a pair in which only the
\* source selection has changed.
C28_SwapSubmitsSwappedPair ==
    swaplog # <<>> =>
        \A i \in SubmittedBySwap :
            /\ win.tasks[i].source_lang = swaplog[1].dest
            /\ win.tasks[i].target_lang = swaplog[1].src

\* C29: translate_text never stores an empty translation: after a non-empty
\* raw primary response, also one made only of markup characters, the entry
\* written has a non-empty translation, and a later hit never returns the
\* empty string.
C29_NeverStoresEmpty ==
    /\ \A i \in 1..Len(cache) : cache[i].translation # <<>>
    /\ \A i \in 1..Len(oplog) :
          oplog[i].outcome \in {"primary", "hit"} => oplog[i].ret # <<>>

=============================================================================
